---- MODULE Spec2Model ----
(***************************************************************************)
(* Attribute codec of go-tc: the Netem qdisc schema (q_netem.go), the U32   *)
(* filter schema and its selector parser (f_u32.go), and the nil-argument   *)
(* contract of Qdisc().Add exercised by qdisc_test.go.                      *)
(*                                                                          *)
(* Numbers are kept as base-256 digit strings, most significant digit       *)
(* first (0xFFFFFFFF is <<255,255,255,255>>), so that every width of the    *)
(* kernel ABI is representable; the wire form is native (little endian)     *)
(* byte order, i.e. the digits reversed.                                    *)
(***************************************************************************)
EXTENDS Integers, Sequences, FiniteSets, TLC

VARIABLES scenario, pc, info, data, recs, eager, merr, uerr, out, stat, reads, sent

vars == <<scenario, pc, info, data, recs, eager, merr, uerr, out, stat, reads, sent>>

(***************************************************************************)
(* Bounds of the exploration.                                               *)
(***************************************************************************)
MaxRecs  == 3
MaxKeys  == 2
MaxVal   == 1

(***************************************************************************)
(* Generic helpers.                                                         *)
(***************************************************************************)
None == <<>>

Some(v) == <<v>>

Min(a, b) == IF a < b THEN a ELSE b

Reverse(s) == [i \in 1..Len(s) |-> s[Len(s) + 1 - i]]

Zeros(n) == [i \in 1..n |-> 0]

Pow256(k) == IF k = 0 THEN 1 ELSE IF k = 1 THEN 256 ELSE IF k = 2 THEN 65536 ELSE 16777216

\* the w-byte digit string of a natural below 2^31
Num(n, w) == [i \in 1..w |-> IF w - i > 3 THEN 0 ELSE (n \div Pow256(w - i)) % 256]

\* Go slice expression b[lo:hi] (0-based, hi exclusive), clipped to the buffer
Slice(b, lo, hi) == SubSeq(b, lo + 1, Min(hi, Len(b)))

RECURSIVE Flatten(_)
Flatten(ss) == IF ss = <<>> THEN <<>> ELSE Head(ss) \o Flatten(Tail(ss))

(***************************************************************************)
(* Errors.  nil is the empty error; an error carries its messages and the   *)
(* sentinel errors it wraps (fmt.Errorf with %w).                           *)
(***************************************************************************)
NilErr == [msg |-> <<>>, wraps |-> {}]

Err(m) == [msg |-> <<m>>, wraps |-> {}]

ErrNoArg == [msg |-> <<"missing argument">>, wraps |-> {"ErrNoArg"}]

Errorf_w(prefix, e) == [msg |-> <<prefix>> \o e.msg, wraps |-> e.wraps]

ErrorsIs(e, target) == target.wraps # {} /\ target.wraps \subseteq e.wraps

concatError(orig, add) ==
    IF add = NilErr THEN orig
    ELSE IF orig = NilErr THEN add
    ELSE [msg |-> orig.msg \o add.msg, wraps |-> orig.wraps \cup add.wraps]

(***************************************************************************)
(* Fixed-layout struct codec.  A layout is the ordered list of the fields   *)
(* of a struct with their widths in bytes.                                  *)
(***************************************************************************)
nativeEndianPut(v) == Reverse(v)

nativeEndianGet(b) == Reverse(b)

RECURSIVE LayoutSize(_)
LayoutSize(layout) == IF layout = <<>> THEN 0 ELSE Head(layout)[2] + LayoutSize(Tail(layout))

RECURSIVE FieldOffset(_, _)
FieldOffset(layout, name) ==
    IF Head(layout)[1] = name THEN 0 ELSE Head(layout)[2] + FieldOffset(Tail(layout), name)

FieldWidth(layout, name) ==
    LET k == CHOOSE k \in 1..Len(layout) : layout[k][1] = name IN layout[k][2]

FieldNames(layout) == {layout[k][1] : k \in 1..Len(layout)}

marshalStruct(s, layout) ==
    Flatten([k \in 1..Len(layout) |-> nativeEndianPut(s[layout[k][1]])])

\* binary.Read over a reader of the buffer: fills the struct from the first
\* LayoutSize bytes and fails when the buffer holds fewer
unmarshalStruct(b, layout) ==
    IF Len(b) < LayoutSize(layout)
    THEN [err |-> Err("unexpected EOF"),
          val |-> [n \in FieldNames(layout) |-> Zeros(FieldWidth(layout, n))]]
    ELSE [err |-> NilErr,
          val |-> [n \in FieldNames(layout) |->
                     nativeEndianGet(Slice(b, FieldOffset(layout, n),
                                           FieldOffset(layout, n) + FieldWidth(layout, n)))]]

unmarshalNetlinkAttribute(b, w) ==
    IF Len(b) < w THEN [err |-> Err("unexpected EOF"), val |-> Zeros(w)]
    ELSE [err |-> NilErr, val |-> nativeEndianGet(Slice(b, 0, w))]

(***************************************************************************)
(* TLV attribute encoder (marshalAttributes over the netlink encoder).      *)
(***************************************************************************)
vtBytes  == "vtBytes"
vtUint32 == "vtUint32"
vtUint64 == "vtUint64"
vtInt64  == "vtInt64"

nlaHeaderLen == 4

nlaAlign(n) == ((n + 3) \div 4) * 4

tcOption(i, t, d) == [Interpretation |-> i, Type |-> t, Data |-> d]

OptionPayload(o) == IF o.Interpretation = vtBytes THEN o.Data ELSE nativeEndianPut(o.Data)

EncodeAttr(t, payload) ==
    LET l == nlaHeaderLen + Len(payload) IN
    <<l % 256, l \div 256, t % 256, t \div 256>> \o payload \o Zeros(nlaAlign(l) - l)

marshalAttributes(options) ==
    [bytes |-> Flatten([k \in 1..Len(options) |->
                          EncodeAttr(options[k].Type, OptionPayload(options[k]))]),
     err |-> NilErr]

(***************************************************************************)
(* TLV attribute decoder (netlink.AttributeDecoder).  ParseFrom walks the   *)
(* buffer and yields the attributes in front of the first malformed one.    *)
(***************************************************************************)
errInvalidAttribute == Err("netlink: invalid attribute")

RECURSIVE ParseFrom(_, _)
ParseFrom(b, i) ==
    IF i >= Len(b) THEN [attrs |-> <<>>, err |-> NilErr]
    ELSE IF Len(b) - i < nlaHeaderLen THEN [attrs |-> <<>>, err |-> errInvalidAttribute]
    ELSE LET l == b[i + 1] + 256 * b[i + 2]
             t == (b[i + 3] + 256 * b[i + 4]) % 16384
         IN  IF l > Len(b) - i \/ (l # 0 /\ l < nlaHeaderLen)
             THEN [attrs |-> <<>>, err |-> errInvalidAttribute]
             ELSE LET a == [Type |-> t,
                            Data |-> IF l = 0 THEN <<>> ELSE Slice(b, i + nlaHeaderLen, i + l)]
                      rest == ParseFrom(b, i + (IF l = 0 THEN nlaHeaderLen ELSE nlaAlign(l)))
                  IN  [attrs |-> <<a>> \o rest.attrs, err |-> rest.err]

\* eagerly parsing builds fail in the constructor, lazily parsing builds
\* report the malformed attribute from Next() through Err()
NewAttributeDecoder(b, eagerBuild) ==
    LET p == ParseFrom(b, 0) IN
    IF eagerBuild /\ p.err # NilErr
    THEN [ad |-> [attrs |-> <<>>, i |-> 0, err |-> NilErr, tail |-> NilErr], err |-> p.err]
    ELSE [ad |-> [attrs |-> p.attrs, i |-> 0, err |-> NilErr, tail |-> p.err], err |-> NilErr]

\* ad.Next(): the decoder after the call; adHas tells the value it returned
adNext(ad) ==
    IF ad.err # NilErr THEN ad
    ELSE IF ad.i >= Len(ad.attrs) THEN [ad EXCEPT !.err = ad.tail, !.i = Len(ad.attrs) + 1]
    ELSE [ad EXCEPT !.i = ad.i + 1]

adHas(ad) == ad.err = NilErr /\ ad.i >= 1 /\ ad.i <= Len(ad.attrs)

adType(ad) == ad.attrs[ad.i].Type

adBytes(ad) == ad.attrs[ad.i].Data

\* ad.Uint32(), ad.Uint64(): a payload of another length poisons the decoder
adUint(ad, w) ==
    IF ad.err # NilErr THEN [ad |-> ad, val |-> Zeros(w)]
    ELSE IF Len(adBytes(ad)) # w
         THEN [ad |-> [ad EXCEPT !.err = Err("netlink: attribute is not an integer of this width")],
               val |-> Zeros(w)]
         ELSE [ad |-> ad, val |-> nativeEndianGet(adBytes(ad))]

RECURSIVE CutAtNul(_)
CutAtNul(b) == IF b = <<>> \/ Head(b) = 0 THEN <<>> ELSE <<Head(b)>> \o CutAtNul(Tail(b))

adString(ad) == IF ad.err # NilErr THEN <<>> ELSE CutAtNul(adBytes(ad))

adErr(ad) == ad.err

(***************************************************************************)
(* Netem schema: q_netem.go                                                 *)
(***************************************************************************)
tcaNetemUnspec    == 0
tcaNetemCorr      == 1
tcaNetemDelayDist == 2
tcaNetemReorder   == 3
tcaNetemCorrupt   == 4
tcaNetemLoss      == 5
tcaNetemRate      == 6
tcaNetemEcn       == 7
tcaNetemRate64    == 8
tcaNetemPad       == 9
tcaNetemLatency64 == 10
tcaNetemJitter64  == 11
tcaNetemSlot      == 12
tcaNetemSlotDist  == 13

NetemQopt == << <<"Latency", 4>>, <<"Limit", 4>>, <<"Loss", 4>>, <<"Gap", 4>>,
                <<"Duplicate", 4>>, <<"Jitter", 4>> >>

NetemCorr == << <<"Delay", 4>>, <<"Loss", 4>>, <<"Dup", 4>> >>

NetemReorder == << <<"Probability", 4>>, <<"Correlation", 4>> >>

NetemCorrupt == << <<"Probability", 4>>, <<"Correlation", 4>> >>

NetemRate == << <<"Rate", 4>>, <<"PacketOverhead", 4>>, <<"CellSize", 4>>,
                <<"CellOverhead", 4>> >>

NetemSlot == << <<"MinDelay", 8>>, <<"MaxDelay", 8>>, <<"MaxPackets", 4>>,
                <<"MaxBytes", 4>>, <<"DistDelay", 8>>, <<"DistJitter", 8>> >>

ZeroStruct(layout) == [n \in FieldNames(layout) |-> Zeros(FieldWidth(layout, n))]

\* the zero value of the Netem struct: every pointer nil
Netem == [Qopt |-> ZeroStruct(NetemQopt), Corr |-> None, Reorder |-> None,
          Corrupt |-> None, Rate |-> None, Ecn |-> None, Rate64 |-> None,
          Latency64 |-> None, Jitter64 |-> None, Slot |-> None]

\* offset of the attributes behind the options block, data[24:]
NetemQoptLen == 24

\* one pass of the switch of unmarshalNetem over the current attribute.  The
\* value of concatError(multiError, err) is dropped by the callers' statement,
\* so multiError is what it was; fails counts the sub-decodes that failed.
unmarshalNetemAttr(st) ==
    LET t == adType(st.ad)
        b == adBytes(st.ad)
        S(layout) == unmarshalStruct(b, layout)
        F(r) == IF r.err # NilErr THEN st.fails + 1 ELSE st.fails
    IN
    IF t = tcaNetemCorr
    THEN [st EXCEPT !.info.Corr = Some(S(NetemCorr).val), !.fails = F(S(NetemCorr))]
    ELSE IF t = tcaNetemReorder
    THEN [st EXCEPT !.info.Reorder = Some(S(NetemReorder).val), !.fails = F(S(NetemReorder))]
    ELSE IF t = tcaNetemCorrupt
    THEN [st EXCEPT !.info.Corrupt = Some(S(NetemCorrupt).val), !.fails = F(S(NetemCorrupt))]
    ELSE IF t = tcaNetemRate
    THEN [st EXCEPT !.info.Rate = Some(S(NetemRate).val), !.fails = F(S(NetemRate))]
    ELSE IF t = tcaNetemEcn
    THEN LET u == adUint(st.ad, 4) IN
         [st EXCEPT !.ad = u.ad, !.info.Ecn = Some(u.val), !.fails = F(u.ad)]
    ELSE IF t = tcaNetemRate64
    THEN LET u == adUint(st.ad, 8) IN
         [st EXCEPT !.ad = u.ad, !.info.Rate64 = Some(u.val), !.fails = F(u.ad)]
    ELSE IF t = tcaNetemLatency64
    THEN LET r == unmarshalNetlinkAttribute(b, 8) IN
         [st EXCEPT !.info.Latency64 = Some(r.val), !.fails = F(r)]
    ELSE IF t = tcaNetemJitter64
    THEN LET r == unmarshalNetlinkAttribute(b, 8) IN
         [st EXCEPT !.info.Jitter64 = Some(r.val), !.fails = F(r)]
    ELSE IF t = tcaNetemSlot
    THEN [st EXCEPT !.info.Slot = Some(S(NetemSlot).val), !.fails = F(S(NetemSlot))]
    ELSE IF t = tcaNetemPad
    THEN st
    ELSE [st EXCEPT !.ret = Some(Err("unmarshalNetem()")), !.fails = st.fails + 1]

\* mutant: the loop takes a pad record for the end of the stream
RECURSIVE unmarshalNetemLoopPadEnds(_)
unmarshalNetemLoopPadEnds(st) ==
    LET ad2 == adNext(st.ad) IN
    IF ~adHas(ad2) \/ adType(ad2) = tcaNetemPad
    THEN [info |-> st.info, err |-> concatError(st.multiError, adErr(ad2)),
          visited |-> st.visited, fails |-> st.fails]
    ELSE LET st2 == unmarshalNetemAttr([st EXCEPT !.ad = ad2, !.visited = st.visited + 1]) IN
         IF st2.ret # None
         THEN [info |-> st2.info, err |-> st2.ret[1],
               visited |-> st2.visited, fails |-> st2.fails]
         ELSE unmarshalNetemLoopPadEnds(st2)

\* for ad.Next() { switch ... } return concatError(multiError, ad.Err())
RECURSIVE unmarshalNetemLoop(_)
unmarshalNetemLoop(st) ==
    LET ad2 == adNext(st.ad) IN
    IF ~adHas(ad2)
    THEN [info |-> st.info, err |-> concatError(st.multiError, adErr(ad2)),
          visited |-> st.visited, fails |-> st.fails]
    ELSE LET st2 == unmarshalNetemAttr([st EXCEPT !.ad = ad2, !.visited = st.visited + 1]) IN
         IF st2.ret # None
         THEN [info |-> st2.info, err |-> st2.ret[1],
               visited |-> st2.visited, fails |-> st2.fails]
         ELSE unmarshalNetemLoop(st2)

\* mutant: the decoded options block is not stored into info
unmarshalNetemDropsQopt(b, info0, eagerBuild) ==
    LET q == unmarshalStruct(b, NetemQopt) IN
    IF q.err # NilErr
    THEN [info |-> info0, err |-> q.err, visited |-> 0, fails |-> 1]
    ELSE LET nd == NewAttributeDecoder(Slice(b, NetemQoptLen, Len(b)), eagerBuild)
         IN  IF nd.err # NilErr
             THEN [info |-> info0, err |-> nd.err, visited |-> 0, fails |-> 1]
             ELSE unmarshalNetemLoop([ad |-> nd.ad, info |-> info0, multiError |-> NilErr,
                                      ret |-> None, visited |-> 0, fails |-> 0])

unmarshalNetem(b, info0, eagerBuild) ==
    LET q == unmarshalStruct(b, NetemQopt) IN
    IF q.err # NilErr
    THEN [info |-> info0, err |-> q.err, visited |-> 0, fails |-> 1]
    ELSE LET info1 == [info0 EXCEPT !.Qopt = q.val]
             nd == NewAttributeDecoder(Slice(b, NetemQoptLen, Len(b)), eagerBuild)
         IN  IF nd.err # NilErr
             THEN [info |-> info1, err |-> nd.err, visited |-> 0, fails |-> 1]
             ELSE unmarshalNetemLoop([ad |-> nd.ad, info |-> info1, multiError |-> NilErr,
                                      ret |-> None, visited |-> 0, fails |-> 0])

\* mutant: Ecn is emitted only when its value is not zero
NetemOptionsZeroEcnAbsent(p) ==
       (IF p.Corr # None
        THEN <<tcOption(vtBytes, tcaNetemCorr, marshalStruct(p.Corr[1], NetemCorr))>> ELSE <<>>)
    \o (IF p.Reorder # None
        THEN <<tcOption(vtBytes, tcaNetemReorder, marshalStruct(p.Reorder[1], NetemReorder))>> ELSE <<>>)
    \o (IF p.Corrupt # None
        THEN <<tcOption(vtBytes, tcaNetemCorrupt, marshalStruct(p.Corrupt[1], NetemCorrupt))>> ELSE <<>>)
    \o (IF p.Rate # None
        THEN <<tcOption(vtBytes, tcaNetemRate, marshalStruct(p.Rate[1], NetemRate))>> ELSE <<>>)
    \o (IF p.Ecn # None /\ p.Ecn # Some(Zeros(4))
        THEN <<tcOption(vtUint32, tcaNetemEcn, p.Ecn[1])>> ELSE <<>>)
    \o (IF p.Rate64 # None THEN <<tcOption(vtUint64, tcaNetemRate64, p.Rate64[1])>> ELSE <<>>)
    \o (IF p.Latency64 # None THEN <<tcOption(vtInt64, tcaNetemLatency64, p.Latency64[1])>> ELSE <<>>)
    \o (IF p.Jitter64 # None THEN <<tcOption(vtInt64, tcaNetemJitter64, p.Jitter64[1])>> ELSE <<>>)
    \o (IF p.Slot # None
        THEN <<tcOption(vtBytes, tcaNetemSlot, marshalStruct(p.Slot[1], NetemSlot))>> ELSE <<>>)

\* the options list of marshalNetem, in the order of its if statements
NetemOptions(p) ==
       (IF p.Corr # None
        THEN <<tcOption(vtBytes, tcaNetemCorr, marshalStruct(p.Corr[1], NetemCorr))>> ELSE <<>>)
    \o (IF p.Reorder # None
        THEN <<tcOption(vtBytes, tcaNetemReorder, marshalStruct(p.Reorder[1], NetemReorder))>> ELSE <<>>)
    \o (IF p.Corrupt # None
        THEN <<tcOption(vtBytes, tcaNetemCorrupt, marshalStruct(p.Corrupt[1], NetemCorrupt))>> ELSE <<>>)
    \o (IF p.Rate # None
        THEN <<tcOption(vtBytes, tcaNetemRate, marshalStruct(p.Rate[1], NetemRate))>> ELSE <<>>)
    \o (IF p.Ecn # None THEN <<tcOption(vtUint32, tcaNetemEcn, p.Ecn[1])>> ELSE <<>>)
    \o (IF p.Rate64 # None THEN <<tcOption(vtUint64, tcaNetemRate64, p.Rate64[1])>> ELSE <<>>)
    \o (IF p.Latency64 # None THEN <<tcOption(vtInt64, tcaNetemLatency64, p.Latency64[1])>> ELSE <<>>)
    \o (IF p.Jitter64 # None THEN <<tcOption(vtInt64, tcaNetemJitter64, p.Jitter64[1])>> ELSE <<>>)
    \o (IF p.Slot # None
        THEN <<tcOption(vtBytes, tcaNetemSlot, marshalStruct(p.Slot[1], NetemSlot))>> ELSE <<>>)

\* mutant: the nil check returns an error that does not wrap ErrNoArg
marshalNetemPlainError(ptr) ==
    IF ptr = None
    THEN [bytes |-> <<>>, err |-> Err("Netem: missing argument")]
    ELSE LET m == marshalAttributes(NetemOptions(ptr[1])) IN
         [bytes |-> marshalStruct(ptr[1].Qopt, NetemQopt) \o m.bytes, err |-> NilErr]

\* info is the pointer handed in: None is nil
marshalNetem(ptr) ==
    IF ptr = None
    THEN [bytes |-> <<>>, err |-> Errorf_w("Netem: ", ErrNoArg)]
    ELSE LET m == marshalAttributes(NetemOptions(ptr[1])) IN
         [bytes |-> marshalStruct(ptr[1].Qopt, NetemQopt) \o m.bytes, err |-> NilErr]

(***************************************************************************)
(* Policing and action blocks shared by the filters: nested TLV streams.    *)
(***************************************************************************)
tcaPoliceAvRate == 4

tcaActKind == 1

Police == [AvRate |-> None]

marshalPolice(p) ==
    marshalAttributes(IF p.AvRate # None
                      THEN <<tcOption(vtUint32, tcaPoliceAvRate, p.AvRate[1])>> ELSE <<>>)

RECURSIVE unmarshalPoliceLoop(_, _)
unmarshalPoliceLoop(ad, pol) ==
    LET ad2 == adNext(ad) IN
    IF ~adHas(ad2) THEN [val |-> pol, err |-> adErr(ad2)]
    ELSE IF adType(ad2) = tcaPoliceAvRate
         THEN LET u == adUint(ad2, 4) IN unmarshalPoliceLoop(u.ad, [pol EXCEPT !.AvRate = Some(u.val)])
         ELSE [val |-> pol, err |-> Err("unmarshalPolice()")]

unmarshalPolice(b, eagerBuild) ==
    LET nd == NewAttributeDecoder(b, eagerBuild) IN
    IF nd.err # NilErr THEN [val |-> Police, err |-> nd.err]
    ELSE unmarshalPoliceLoop(nd.ad, Police)

\* an action list: the k-th action is the nested attribute k holding its kind
marshalActions(acts) ==
    marshalAttributes([k \in 1..Len(acts) |->
        tcOption(vtBytes, k, EncodeAttr(tcaActKind, acts[k] \o <<0>>))])

RECURSIVE unmarshalActionsLoop(_, _, _)
unmarshalActionsLoop(ad, acts, eagerBuild) ==
    LET ad2 == adNext(ad) IN
    IF ~adHas(ad2) THEN [val |-> acts, err |-> adErr(ad2)]
    ELSE LET inner == ParseFrom(adBytes(ad2), 0) IN
         IF inner.err # NilErr \/ Len(inner.attrs) # 1 \/ inner.attrs[1].Type # tcaActKind
         THEN [val |-> acts, err |-> Err("unmarshalActions()")]
         ELSE unmarshalActionsLoop(ad2, Append(acts, CutAtNul(inner.attrs[1].Data)), eagerBuild)

unmarshalActions(b, eagerBuild) ==
    LET nd == NewAttributeDecoder(b, eagerBuild) IN
    IF nd.err # NilErr THEN [val |-> <<>>, err |-> nd.err]
    ELSE unmarshalActionsLoop(nd.ad, <<>>, eagerBuild)

(***************************************************************************)
(* U32 schema: f_u32.go                                                     *)
(***************************************************************************)
tcaU32Unspec  == 0
tcaU32ClassID == 1
tcaU32Hash    == 2
tcaU32Link    == 3
tcaU32Divisor == 4
tcaU32Sel     == 5
tcaU32Police  == 6
tcaU32Act     == 7
tcaU32InDev   == 8
tcaU32Pcnt    == 9
tcaU32Mark    == 10
tcaU32Flags   == 11
tcaU32Pad     == 12

U32Mark == << <<"Val", 4>>, <<"Mask", 4>>, <<"Success", 4>> >>

U32Key == << <<"Mask", 4>>, <<"Val", 4>>, <<"Off", 4>>, <<"OffMask", 4>> >>

\* the zero values of the U32Sel and U32 structs
U32Sel == [Flags |-> <<0>>, Offshift |-> <<0>>, NKeys |-> <<0>>, OffMask |-> Zeros(2),
           Off |-> Zeros(2), Offoff |-> Zeros(2), Hoff |-> Zeros(2), Hmask |-> Zeros(4),
           Keys |-> <<>>]

U32 == [ClassID |-> Zeros(4), Hash |-> Zeros(4), Link |-> Zeros(4), Divisor |-> Zeros(4),
        Sel |-> None, InDev |-> <<>>, Pcnt |-> Zeros(8), Mark |-> None, Flags |-> Zeros(4),
        Police |-> None, Actions |-> None]

U32SelHeaderLen == 15

U32KeyLen == 16

validateU32SelOptions(sel) ==
    [bytes |-> nativeEndianPut(sel.Flags) \o nativeEndianPut(sel.Offshift)
               \o nativeEndianPut(sel.NKeys) \o nativeEndianPut(sel.OffMask)
               \o nativeEndianPut(sel.Off) \o nativeEndianPut(sel.Offoff)
               \o nativeEndianPut(sel.Hoff) \o nativeEndianPut(sel.Hmask)
               \o Flatten([k \in 1..Len(sel.Keys) |-> marshalStruct(sel.Keys[k], U32Key)]),
     err |-> NilErr]

\* the key loop of extractU32Sel; rd collects every byte index it touches
RECURSIVE extractU32Keys(_, _, _, _)
extractU32Keys(b, sel, i, rd) ==
    IF i >= sel.NKeys[1] THEN [info |-> sel, err |-> NilErr, reads |-> rd]
    ELSE LET lo == U32SelHeaderLen + i * U32KeyLen
             hi == U32SelHeaderLen + (i + 1) * U32KeyLen
             k  == unmarshalStruct(Slice(b, lo, hi), U32Key)
             rd2 == rd \cup (lo..(hi - 1))
         IN  IF k.err # NilErr THEN [info |-> sel, err |-> k.err, reads |-> rd2]
             ELSE extractU32Keys(b, [sel EXCEPT !.Keys = Append(sel.Keys, k.val)], i + 1, rd2)

\* data[i] of a buffer that may be too short for it
ByteAt(b, i) == IF i < Len(b) THEN b[i + 1] ELSE 0

\* mutant: the key-array check leaves the header out of the required length
extractU32SelHeaderForgotten(b, sel0) ==
    IF Len(b) < U32SelHeaderLen
    THEN [info |-> sel0, err |-> Err("not enough bytes for U32Sel"), reads |-> {}]
    ELSE LET G(lo, hi) == nativeEndianGet([j \in 1..(hi - lo) |-> ByteAt(b, lo + j - 1)])
             sel1 == [sel0 EXCEPT !.Flags = G(0, 1), !.Offshift = G(1, 2), !.NKeys = G(2, 3),
                                  !.OffMask = G(3, 5), !.Off = G(5, 7), !.Offoff = G(7, 9),
                                  !.Hoff = G(9, 11), !.Hmask = G(11, 15)]
             rd == 0..(U32SelHeaderLen - 1)
         IN  IF Len(b) < sel1.NKeys[1] * U32KeyLen
             THEN [info |-> sel1, err |-> Err("not enough bytes for U32Keys"), reads |-> rd]
             ELSE extractU32Keys(b, sel1, 0, rd)

extractU32Sel(b, sel0) ==
    IF Len(b) < U32SelHeaderLen
    THEN [info |-> sel0, err |-> Err("not enough bytes for U32Sel"), reads |-> {}]
    ELSE LET G(lo, hi) == nativeEndianGet([j \in 1..(hi - lo) |-> ByteAt(b, lo + j - 1)])
             sel1 == [sel0 EXCEPT !.Flags = G(0, 1), !.Offshift = G(1, 2), !.NKeys = G(2, 3),
                                  !.OffMask = G(3, 5), !.Off = G(5, 7), !.Offoff = G(7, 9),
                                  !.Hoff = G(9, 11), !.Hmask = G(11, 15)]
             rd == 0..(U32SelHeaderLen - 1)
         IN  IF Len(b) < sel1.NKeys[1] * U32KeyLen + U32SelHeaderLen
             THEN [info |-> sel1, err |-> Err("not enough bytes for U32Keys"), reads |-> rd]
             ELSE extractU32Keys(b, sel1, 0, rd)

\* the options list of marshalU32, or the error of the first block that fails
U32Options(p) ==
    LET sel == IF p.Sel # None THEN validateU32SelOptions(p.Sel[1])
               ELSE [bytes |-> <<>>, err |-> NilErr]
        pol == IF p.Police # None THEN marshalPolice(p.Police[1])
               ELSE [bytes |-> <<>>, err |-> NilErr]
        act == IF p.Actions # None THEN marshalActions(p.Actions[1])
               ELSE [bytes |-> <<>>, err |-> NilErr]
    IN
    IF sel.err # NilErr THEN [options |-> <<>>, err |-> sel.err]
    ELSE IF pol.err # NilErr THEN [options |-> <<>>, err |-> pol.err]
    ELSE IF act.err # NilErr THEN [options |-> <<>>, err |-> act.err]
    ELSE [err |-> NilErr,
          options |->
               (IF p.Sel # None THEN <<tcOption(vtBytes, tcaU32Sel, sel.bytes)>> ELSE <<>>)
            \o (IF p.Mark # None
                THEN <<tcOption(vtBytes, tcaU32Mark, marshalStruct(p.Mark[1], U32Mark))>> ELSE <<>>)
            \o (IF p.ClassID # Zeros(4) THEN <<tcOption(vtUint32, tcaU32ClassID, p.ClassID)>> ELSE <<>>)
            \o (IF p.Police # None THEN <<tcOption(vtBytes, tcaU32Police, pol.bytes)>> ELSE <<>>)
            \o (IF p.Flags # Zeros(4) THEN <<tcOption(vtUint32, tcaU32Flags, p.Flags)>> ELSE <<>>)
            \o (IF p.Actions # None THEN <<tcOption(vtBytes, tcaU32Act, act.bytes)>> ELSE <<>>)]

marshalU32(ptr) ==
    IF ptr = None
    THEN [bytes |-> <<>>, err |-> Errorf_w("U32: ", ErrNoArg)]
    ELSE LET o == U32Options(ptr[1]) IN
         IF o.err # NilErr THEN [bytes |-> <<>>, err |-> o.err]
         ELSE marshalAttributes(o.options)

\* one pass of the switch of unmarshalU32 over the current attribute
unmarshalU32Attr(st, eagerBuild) ==
    LET t == adType(st.ad)
        b == adBytes(st.ad)
        u4 == adUint(st.ad, 4)
        u8 == adUint(st.ad, 8)
        F(r) == IF r.err # NilErr THEN st.fails + 1 ELSE st.fails
    IN
    IF t = tcaU32ClassID
    THEN [st EXCEPT !.ad = u4.ad, !.info.ClassID = u4.val, !.fails = F(u4.ad)]
    ELSE IF t = tcaU32Hash
    THEN [st EXCEPT !.ad = u4.ad, !.info.Hash = u4.val, !.fails = F(u4.ad)]
    ELSE IF t = tcaU32Link
    THEN [st EXCEPT !.ad = u4.ad, !.info.Link = u4.val, !.fails = F(u4.ad)]
    ELSE IF t = tcaU32Divisor
    THEN [st EXCEPT !.ad = u4.ad, !.info.Divisor = u4.val, !.fails = F(u4.ad)]
    ELSE IF t = tcaU32Sel
    THEN LET r == extractU32Sel(b, U32Sel) IN
         IF r.err # NilErr THEN [st EXCEPT !.ret = Some(r.err), !.fails = st.fails + 1]
         ELSE [st EXCEPT !.info.Sel = Some(r.info)]
    ELSE IF t = tcaU32Police
    THEN LET r == unmarshalPolice(b, eagerBuild) IN
         IF r.err # NilErr THEN [st EXCEPT !.ret = Some(r.err), !.fails = st.fails + 1]
         ELSE [st EXCEPT !.info.Police = Some(r.val)]
    ELSE IF t = tcaU32InDev
    THEN [st EXCEPT !.info.InDev = adString(st.ad)]
    ELSE IF t = tcaU32Pcnt
    THEN [st EXCEPT !.ad = u8.ad, !.info.Pcnt = u8.val, !.fails = F(u8.ad)]
    ELSE IF t = tcaU32Mark
    THEN LET r == unmarshalStruct(b, U32Mark) IN
         IF r.err # NilErr THEN [st EXCEPT !.ret = Some(r.err), !.fails = st.fails + 1]
         ELSE [st EXCEPT !.info.Mark = Some(r.val)]
    ELSE IF t = tcaU32Flags
    THEN [st EXCEPT !.ad = u4.ad, !.info.Flags = u4.val, !.fails = F(u4.ad)]
    ELSE IF t = tcaU32Act
    THEN LET r == unmarshalActions(b, eagerBuild) IN
         IF r.err # NilErr THEN [st EXCEPT !.ret = Some(r.err), !.fails = st.fails + 1]
         ELSE [st EXCEPT !.info.Actions = Some(r.val)]
    ELSE IF t = tcaU32Pad
    THEN st
    ELSE [st EXCEPT !.ret = Some(Err("unmarshalU32()")), !.fails = st.fails + 1]

\* for ad.Next() { switch ... } return nil
RECURSIVE unmarshalU32Loop(_, _)
unmarshalU32Loop(st, eagerBuild) ==
    LET ad2 == adNext(st.ad) IN
    IF ~adHas(ad2)
    THEN [info |-> st.info, err |-> NilErr, visited |-> st.visited, fails |-> st.fails]
    ELSE LET st2 == unmarshalU32Attr([st EXCEPT !.ad = ad2, !.visited = st.visited + 1],
                                     eagerBuild) IN
         IF st2.ret # None
         THEN [info |-> st2.info, err |-> st2.ret[1],
               visited |-> st2.visited, fails |-> st2.fails]
         ELSE unmarshalU32Loop(st2, eagerBuild)

unmarshalU32(b, info0, eagerBuild) ==
    LET nd == NewAttributeDecoder(b, eagerBuild) IN
    IF nd.err # NilErr
    THEN [info |-> info0, err |-> nd.err, visited |-> 0, fails |-> 1]
    ELSE unmarshalU32Loop([ad |-> nd.ad, info |-> info0, ret |-> None,
                           visited |-> 0, fails |-> 0], eagerBuild)

(***************************************************************************)
(* Inputs of the Netem entry points.                                        *)
(***************************************************************************)
SampleStruct(layout, v) ==
    [n \in FieldNames(layout) |->
        IF v = 0 THEN Zeros(FieldWidth(layout, n))
        ELSE Num(v * 4099 + FieldOffset(layout, n) + 1, FieldWidth(layout, n))]

\* a negative int64: the two's complement digits of -(v + 1)
Neg64(v) == [i \in 1..8 |-> 255 - Num(v, 8)[i]]

NetemOptional == {"Corr", "Reorder", "Corrupt", "Rate", "Ecn", "Rate64",
                  "Latency64", "Jitter64", "Slot"}

NetemSample(S, v) ==
    [Qopt      |-> SampleStruct(NetemQopt, v),
     Corr      |-> IF "Corr" \in S THEN Some(SampleStruct(NetemCorr, v)) ELSE None,
     Reorder   |-> IF "Reorder" \in S THEN Some(SampleStruct(NetemReorder, v)) ELSE None,
     Corrupt   |-> IF "Corrupt" \in S THEN Some(SampleStruct(NetemCorrupt, v)) ELSE None,
     Rate      |-> IF "Rate" \in S THEN Some(SampleStruct(NetemRate, v)) ELSE None,
     Ecn       |-> IF "Ecn" \in S THEN Some(Num(v, 4)) ELSE None,
     Rate64    |-> IF "Rate64" \in S THEN Some(Num(v * 70001, 8)) ELSE None,
     Latency64 |-> IF "Latency64" \in S THEN Some(IF v = 0 THEN Zeros(8) ELSE Neg64(v)) ELSE None,
     Jitter64  |-> IF "Jitter64" \in S THEN Some(Num(v * 258, 8)) ELSE None,
     Slot      |-> IF "Slot" \in S THEN Some(SampleStruct(NetemSlot, v)) ELSE None]

\* the payload of the documented scenario: latency 42, jitter 7, rate64 1000000
ScenarioNetem ==
    [Netem EXCEPT !.Qopt.Latency = Num(42, 4), !.Qopt.Jitter = Num(7, 4),
                  !.Rate64 = Some(Num(1000000, 8))]

NetemPayloads ==
    {NetemSample(S, v) : S \in SUBSET NetemOptional, v \in 0..MaxVal} \cup {ScenarioNetem}

Rec(t, d) == [Type |-> t, Data |-> d]

\* attribute records a Netem message is assembled from: well formed, of a
\* wrong size, padding, and type codes without a decode case
NetemRecs ==
    { Rec(tcaNetemCorr, marshalStruct(SampleStruct(NetemCorr, 1), NetemCorr)),
      Rec(tcaNetemCorr, <<1, 0, 0, 0>>),
      Rec(tcaNetemReorder, <<2, 0, 0, 0>>),
      Rec(tcaNetemEcn, Zeros(4)),
      Rec(tcaNetemEcn, <<1, 0>>),
      Rec(tcaNetemRate64, nativeEndianPut(Num(1000000, 8))),
      Rec(tcaNetemPad, <<>>),
      Rec(tcaNetemPad, <<7, 7, 7, 7>>),
      Rec(tcaNetemUnspec, <<>>),
      Rec(tcaNetemDelayDist, <<1, 2>>),
      Rec(tcaNetemSlotDist + 1, <<3>>) }

Streams(alphabet) == UNION {[1..n -> alphabet] : n \in 0..MaxRecs}

EncodeRecs(rs) == Flatten([k \in 1..Len(rs) |-> EncodeAttr(rs[k].Type, rs[k].Data)])

\* the header of a record that announces more bytes than the buffer holds
TruncatedTail == <<8, 0, 1, 0>>

Tails == {<<>>, TruncatedTail}

NetemPrefix == marshalStruct(SampleStruct(NetemQopt, 1), NetemQopt)

(***************************************************************************)
(* Inputs of the U32 entry points.                                          *)
(***************************************************************************)
\* a selector that declares n keys and carries m
SelSample(n, m) ==
    [U32Sel EXCEPT !.Flags = <<1>>, !.NKeys = <<n>>, !.Off = Num(258, 2),
                   !.Hmask = Num(66051, 4),
                   !.Keys = [k \in 1..m |-> SampleStruct(U32Key, k)]]

\* the selector of the documented scenario
ScenarioSel ==
    [U32Sel EXCEPT !.NKeys = <<2>>,
        !.Keys = << [Mask |-> <<255, 255, 255, 255>>, Val |-> Num(10, 4),
                     Off |-> Num(0, 4), OffMask |-> Num(0, 4)],
                    [Mask |-> <<0, 0, 255, 255>>, Val |-> Num(20, 4),
                     Off |-> Num(4, 4), OffMask |-> Num(0, 4)] >>]

SelSamples == {SelSample(n, m) : n \in 0..MaxKeys, m \in 0..MaxKeys} \cup {ScenarioSel}

DevName == <<101, 116, 104, 48>>

U32Extras == {"none", "Hash", "Link", "Divisor", "InDev", "Pcnt", "all"}

U32Sample(c, f, x, sel, mark, pol, acts) ==
    [ClassID |-> Num(c * 65537, 4),
     Hash    |-> IF x \in {"Hash", "all"} THEN Num(2048, 4) ELSE Zeros(4),
     Link    |-> IF x \in {"Link", "all"} THEN Num(4096, 4) ELSE Zeros(4),
     Divisor |-> IF x \in {"Divisor", "all"} THEN Num(256, 4) ELSE Zeros(4),
     Sel     |-> sel,
     InDev   |-> IF x \in {"InDev", "all"} THEN DevName ELSE <<>>,
     Pcnt    |-> IF x \in {"Pcnt", "all"} THEN Num(77, 8) ELSE Zeros(8),
     Mark    |-> mark,
     Flags   |-> Num(f * 8, 4),
     Police  |-> pol,
     Actions |-> acts]

PoliceSample == [Police EXCEPT !.AvRate = Some(Num(500, 4))]

U32Payloads ==
    {U32Sample(c, f, x, sel, mark, pol, acts) :
        c \in 0..1, f \in 0..1, x \in U32Extras,
        sel \in {None} \cup {Some(z) : z \in SelSamples},
        mark \in {None} \cup {Some(SampleStruct(U32Mark, v)) : v \in 0..MaxVal},
        pol \in {None, Some(PoliceSample)},
        acts \in {None, Some(<<>>), Some(<<DevName>>)}}

U32Recs ==
    { Rec(tcaU32ClassID, nativeEndianPut(Num(65537, 4))),
      Rec(tcaU32ClassID, <<1, 0>>),
      Rec(tcaU32Hash, nativeEndianPut(Num(2048, 4))),
      Rec(tcaU32Sel, validateU32SelOptions(SelSample(1, 1)).bytes),
      Rec(tcaU32Sel, validateU32SelOptions(SelSample(2, 0)).bytes),
      Rec(tcaU32InDev, DevName \o <<0>>),
      Rec(tcaU32Mark, marshalStruct(SampleStruct(U32Mark, 1), U32Mark)),
      Rec(tcaU32Police, marshalPolice(PoliceSample).bytes),
      Rec(tcaU32Pad, <<>>),
      Rec(tcaU32Pad, <<7, 7, 7, 7>>),
      Rec(tcaU32Pad + 1, <<3>>) }

\* raw selector buffers: every length around the header and the key array,
\* with the count byte at offset 2 chosen freely
SelCounts == (0..(MaxKeys + 1)) \cup {255}

SelBuffer(len, n) == [i \in 1..len |-> IF i = 3 THEN n ELSE (i * 7) % 256]

SelBuffers ==
    {SelBuffer(len, n) : len \in 0..(U32SelHeaderLen + U32KeyLen * MaxKeys + 1), n \in SelCounts}

\* objects handed to Qdisc().Add
QdiscObjects == {[Kind |-> "netem", Netem |-> Some(ScenarioNetem)],
                 [Kind |-> "clsact", Netem |-> None]}

TransportResults == {NilErr, Err("netlink receive: operation not permitted")}

InitCommon ==
    /\ pc = "start"
    /\ eager = FALSE
    /\ merr = NilErr
    /\ uerr = NilErr
    /\ out = None
    /\ stat = <<0, 0>>
    /\ reads = {}
    /\ sent = 0

InitNetemMarshal ==
    /\ scenario = "netem_marshal"
    /\ info \in {None} \cup {Some(p) : p \in NetemPayloads}
    /\ data = <<>>
    /\ recs = <<>>
    /\ InitCommon

InitNetemDecode ==
    /\ scenario = "netem_decode"
    /\ info = None
    /\ recs \in Streams(NetemRecs)
    /\ \E tl \in Tails : data = NetemPrefix \o EncodeRecs(recs) \o tl
    /\ InitCommon

InitU32Marshal ==
    /\ scenario = "u32_marshal"
    /\ info \in {None} \cup {Some(p) : p \in U32Payloads}
    /\ data = <<>>
    /\ recs = <<>>
    /\ InitCommon

InitU32Decode ==
    /\ scenario = "u32_decode"
    /\ info = None
    /\ recs \in Streams(U32Recs)
    /\ \E tl \in Tails : data = EncodeRecs(recs) \o tl
    /\ InitCommon

InitSelMarshal ==
    /\ scenario = "sel_marshal"
    /\ info \in {Some(z) : z \in SelSamples}
    /\ data = <<>>
    /\ recs = <<>>
    /\ InitCommon

InitSelExtract ==
    /\ scenario = "sel_extract"
    /\ info = None
    /\ data \in SelBuffers
    /\ recs = <<>>
    /\ InitCommon

InitQdiscAdd ==
    /\ scenario = "qdisc_add"
    /\ info \in {None} \cup {Some(o) : o \in QdiscObjects}
    /\ data = <<>>
    /\ recs = <<>>
    /\ InitCommon

Init ==
    \/ InitNetemMarshal
    \/ InitNetemDecode
    \/ InitU32Marshal
    \/ InitU32Decode
    \/ InitSelMarshal
    \/ InitSelExtract
    \/ InitQdiscAdd

MarshalNetem ==
    /\ scenario = "netem_marshal"
    /\ pc = "start"
    /\ LET r == marshalNetem(info) IN
         /\ data' = r.bytes
         /\ merr' = r.err
    /\ pc' = "marshalled"
    /\ UNCHANGED <<scenario, info, recs, eager, uerr, out, stat, reads, sent>>

UnmarshalNetem ==
    /\ \/ scenario = "netem_marshal" /\ pc = "marshalled" /\ merr = NilErr
       \/ scenario = "netem_decode" /\ pc = "start"
    /\ \E e \in BOOLEAN :
         LET r == unmarshalNetem(data, Netem, e) IN
           /\ eager' = e
           /\ out' = Some(r.info)
           /\ uerr' = r.err
           /\ stat' = <<r.visited, r.fails>>
    /\ pc' = "done"
    /\ UNCHANGED <<scenario, info, data, recs, merr, reads, sent>>

MarshalU32 ==
    /\ scenario = "u32_marshal"
    /\ pc = "start"
    /\ LET r == marshalU32(info) IN
         /\ data' = r.bytes
         /\ merr' = r.err
    /\ pc' = "marshalled"
    /\ UNCHANGED <<scenario, info, recs, eager, uerr, out, stat, reads, sent>>

UnmarshalU32 ==
    /\ \/ scenario = "u32_marshal" /\ pc = "marshalled" /\ merr = NilErr
       \/ scenario = "u32_decode" /\ pc = "start"
    /\ \E e \in BOOLEAN :
         LET r == unmarshalU32(data, U32, e) IN
           /\ eager' = e
           /\ out' = Some(r.info)
           /\ uerr' = r.err
           /\ stat' = <<r.visited, r.fails>>
    /\ pc' = "done"
    /\ UNCHANGED <<scenario, info, data, recs, merr, reads, sent>>

ValidateU32SelOptions ==
    /\ scenario = "sel_marshal"
    /\ pc = "start"
    /\ LET r == validateU32SelOptions(info[1]) IN
         /\ data' = r.bytes
         /\ merr' = r.err
    /\ pc' = "marshalled"
    /\ UNCHANGED <<scenario, info, recs, eager, uerr, out, stat, reads, sent>>

ExtractU32Sel ==
    /\ \/ scenario = "sel_marshal" /\ pc = "marshalled" /\ merr = NilErr
       \/ scenario = "sel_extract" /\ pc = "start"
    /\ LET r == extractU32Sel(data, U32Sel) IN
         /\ out' = Some(r.info)
         /\ uerr' = r.err
         /\ reads' = r.reads
    /\ pc' = "done"
    /\ UNCHANGED <<scenario, info, data, recs, eager, merr, stat, sent>>

\* Qdisc().Add: a nil object is refused before anything is encoded or sent;
\* otherwise one request goes out and the transport's verdict comes back
QdiscAdd ==
    /\ scenario = "qdisc_add"
    /\ pc = "start"
    /\ IF info = None
       THEN /\ merr' = ErrNoArg
            /\ UNCHANGED <<data, sent>>
       ELSE /\ data' = (IF info[1].Netem # None THEN marshalNetem(info[1].Netem).bytes ELSE <<>>)
            /\ sent' = sent + 1
            /\ merr' \in TransportResults
    /\ pc' = "done"
    /\ UNCHANGED <<scenario, info, recs, eager, uerr, out, stat, reads>>

Next ==
    \/ MarshalNetem
    \/ UnmarshalNetem
    \/ MarshalU32
    \/ UnmarshalU32
    \/ ValidateU32SelOptions
    \/ ExtractU32Sel
    \/ QdiscAdd

Spec == Init /\ [][Next]_vars

(***************************************************************************)
(* Vocabulary of the properties.                                            *)
(***************************************************************************)
NetemFieldType == << <<"Corr", tcaNetemCorr>>, <<"Reorder", tcaNetemReorder>>,
                     <<"Corrupt", tcaNetemCorrupt>>, <<"Rate", tcaNetemRate>>,
                     <<"Ecn", tcaNetemEcn>>, <<"Rate64", tcaNetemRate64>>,
                     <<"Latency64", tcaNetemLatency64>>, <<"Jitter64", tcaNetemJitter64>>,
                     <<"Slot", tcaNetemSlot>> >>

NetemPayloadLen(t) ==
    IF t = tcaNetemCorr THEN LayoutSize(NetemCorr)
    ELSE IF t = tcaNetemReorder THEN LayoutSize(NetemReorder)
    ELSE IF t = tcaNetemCorrupt THEN LayoutSize(NetemCorrupt)
    ELSE IF t = tcaNetemRate THEN LayoutSize(NetemRate)
    ELSE IF t = tcaNetemEcn THEN 4
    ELSE IF t = tcaNetemSlot THEN LayoutSize(NetemSlot)
    ELSE 8

NetemHandled == {NetemFieldType[k][2] : k \in 1..Len(NetemFieldType)}

NetemFixedBlocks == {tcaNetemCorr, tcaNetemReorder, tcaNetemCorrupt, tcaNetemRate,
                     tcaNetemSlot, tcaNetemLatency64, tcaNetemJitter64}

NetemWellFormed(r) == r.Type \in NetemHandled /\ Len(r.Data) = NetemPayloadLen(r.Type)

U32Handled == tcaU32ClassID..tcaU32Flags

U32WellFormed(r) ==
    /\ r.Type \in U32Handled
    /\ r.Type \in {tcaU32ClassID, tcaU32Hash, tcaU32Link, tcaU32Divisor, tcaU32Flags}
          => Len(r.Data) = 4
    /\ r.Type = tcaU32Pcnt => Len(r.Data) = 8
    /\ r.Type = tcaU32Mark => Len(r.Data) = LayoutSize(U32Mark)
    /\ r.Type = tcaU32Sel => extractU32Sel(r.Data, U32Sel).err = NilErr
    /\ r.Type = tcaU32Police => unmarshalPolice(r.Data, TRUE).err = NilErr
    /\ r.Type = tcaU32Act => unmarshalActions(r.Data, TRUE).err = NilErr

TypesOf(rs) == [k \in 1..Len(rs) |-> rs[k].Type]

NotNetemPad(r) == r.Type # tcaNetemPad

NotU32Pad(r) == r.Type # tcaU32Pad

\* the type codes marshalNetem owes for a payload, in schema order
RECURSIVE PresentTypes(_, _)
PresentTypes(p, k) ==
    IF k > Len(NetemFieldType) THEN <<>>
    ELSE (IF p[NetemFieldType[k][1]] # None THEN <<NetemFieldType[k][2]>> ELSE <<>>)
         \o PresentTypes(p, k + 1)

NetemDecoded == scenario \in {"netem_marshal", "netem_decode"} /\ pc = "done"

(***************************************************************************)
(* Properties.                                                              *)
(***************************************************************************)

\* C1: a Netem payload marshalled by marshalNetem and decoded by unmarshalNetem
\* into an empty payload comes back equal, field for field, with no error on
\* either side.
NetemRoundTrip ==
    (scenario = "netem_marshal" /\ pc = "done")
        => (merr = NilErr /\ uerr = NilErr /\ out = info)

NetemRoundTripWitness ==
    /\ scenario = "netem_marshal"
    /\ pc = "done"
    /\ info = Some(ScenarioNetem)
    /\ out[1].Qopt.Latency = Num(42, 4)
    /\ out[1].Qopt.Jitter = Num(7, 4)
    /\ out[1].Rate64 = Some(<<0, 0, 0, 0, 0, 15, 66, 64>>)
    /\ out[1].Corr = None /\ out[1].Reorder = None /\ out[1].Corrupt = None
    /\ out[1].Rate = None /\ out[1].Slot = None

\* C2: a U32 payload marshalled by marshalU32 and decoded by unmarshalU32 into
\* an empty payload comes back equal in every field.
U32RoundTrip ==
    (scenario = "u32_marshal" /\ pc = "done") => (uerr = NilErr /\ out = info)

\* C3: extractU32Sel reads no byte index at or beyond the buffer length; a
\* buffer below the 15-byte header fails with the header error before any read,
\* one below 15 + 16 * nkeys fails with the key-array error before any key is
\* sliced, and neither failure appends a key.
SelBoundsSafe ==
    (scenario \in {"sel_extract", "sel_marshal"} /\ pc = "done") =>
        /\ \A i \in reads : i < Len(data)
        /\ Len(data) < 15 =>
              /\ uerr = Err("not enough bytes for U32Sel")
              /\ reads = {}
              /\ out[1].Keys = <<>>
        /\ (Len(data) >= 15 /\ Len(data) < 15 + 16 * data[3]) =>
              /\ uerr = Err("not enough bytes for U32Keys")
              /\ \A i \in reads : i < 15
              /\ out[1].Keys = <<>>

SelBoundsSafeWitness ==
    /\ scenario = "sel_extract"
    /\ pc = "done"
    /\ Len(data) = 15 + 16 * MaxKeys
    /\ data[3] = 255
    /\ uerr = Err("not enough bytes for U32Keys")
    /\ reads = 0..14

\* C4: a stream holding a record whose type has no decode case and is not the
\* pad marker makes unmarshalNetem and unmarshalU32 return an error, whatever
\* records surround it.
ClosedSchemaRejection ==
    /\ (scenario = "netem_decode" /\ pc = "done"
        /\ \E k \in 1..Len(recs) : recs[k].Type \notin NetemHandled \cup {tcaNetemPad})
          => uerr # NilErr
    /\ (scenario = "u32_decode" /\ pc = "done"
        /\ \E k \in 1..Len(recs) : recs[k].Type \notin U32Handled \cup {tcaU32Pad})
          => uerr # NilErr

\* C5: with two different fixed-block attributes of a wrong size in a Netem
\* message, unmarshalNetem visits every record, returns an error reporting both
\* failures, and populates every well-formed attribute of the stream.
NetemAggregation ==
    (/\ scenario = "netem_decode"
     /\ pc = "done"
     /\ data = NetemPrefix \o EncodeRecs(recs)
     /\ \A k \in 1..Len(recs) : recs[k].Type \in NetemHandled
     /\ \E a, b \in 1..Len(recs) :
           /\ recs[a].Type # recs[b].Type
           /\ {recs[a].Type, recs[b].Type} \subseteq NetemFixedBlocks
           /\ \A k \in 1..Len(recs) : ~NetemWellFormed(recs[k]) <=> k \in {a, b})
      => /\ stat[1] = Len(recs)
         /\ uerr # NilErr
         /\ Len(uerr.msg) >= 2
         /\ \A k \in 1..Len(NetemFieldType) :
               (\E i \in 1..Len(recs) :
                    recs[i].Type = NetemFieldType[k][2] /\ NetemWellFormed(recs[i]))
                 => out[1][NetemFieldType[k][1]] # None

\* C6: when unmarshalU32 returns nil, every record of its input was visited and
\* none failed to decode: no part of the stream is dropped without an error.
U32NoSilentLoss ==
    (scenario = "u32_decode" /\ pc = "done" /\ uerr = NilErr)
      => /\ stat[1] = Len(recs)
         /\ stat[2] = 0

\* C7: inserting pad records (type 9 for Netem, 12 for U32), with any payload
\* and at any position, into a stream of well-formed attributes changes
\* neither the error nor the payload the decoder returns.
PadSkipping ==
    /\ (/\ scenario = "netem_decode"
        /\ pc = "done"
        /\ data = NetemPrefix \o EncodeRecs(recs)
        /\ \A k \in 1..Len(recs) : recs[k].Type = tcaNetemPad \/ NetemWellFormed(recs[k]))
         => LET r == unmarshalNetem(NetemPrefix \o EncodeRecs(SelectSeq(recs, NotNetemPad)),
                                    Netem, eager)
            IN  uerr = r.err /\ out = Some(r.info)
    /\ (/\ scenario = "u32_decode"
        /\ pc = "done"
        /\ data = EncodeRecs(recs)
        /\ \A k \in 1..Len(recs) : recs[k].Type = tcaU32Pad \/ U32WellFormed(recs[k]))
         => LET r == unmarshalU32(EncodeRecs(SelectSeq(recs, NotU32Pad)), U32, eager)
            IN  uerr = r.err /\ out = Some(r.info)

PadSkippingWitness ==
    /\ scenario = "netem_decode"
    /\ pc = "done"
    /\ Len(recs) = 3
    /\ recs[1] = Rec(tcaNetemPad, <<7, 7, 7, 7>>)
    /\ recs[2].Type = tcaNetemCorr /\ NetemWellFormed(recs[2])
    /\ recs[3] = Rec(tcaNetemPad, <<>>)
    /\ data = NetemPrefix \o EncodeRecs(recs)
    /\ uerr = NilErr
    /\ out[1].Corr = Some(SampleStruct(NetemCorr, 1))

\* C8: a nil object is refused with the missing-argument error before anything
\* is encoded or sent: marshalNetem(nil) and marshalU32(nil) return no bytes
\* and an error that is ErrNoArg under errors.Is, and Qdisc().Add(nil) returns
\* ErrNoArg itself with no request issued.
MissingArgument ==
    /\ (scenario \in {"netem_marshal", "u32_marshal"} /\ pc = "marshalled" /\ info = None)
          => (data = <<>> /\ ErrorsIs(merr, ErrNoArg))
    /\ (scenario = "qdisc_add" /\ pc = "done" /\ info = None)
          => (merr = ErrNoArg /\ sent = 0 /\ data = <<>>)

MissingArgumentWitness ==
    /\ scenario = "netem_marshal"
    /\ pc = "marshalled"
    /\ info = None
    /\ merr = [msg |-> <<"Netem: ", "missing argument">>, wraps |-> {"ErrNoArg"}]

\* C9: marshalNetem emits the 24-byte options block and then exactly one record
\* per present optional field, in schema order, none for an absent one; and
\* after an error-free unmarshalNetem into an empty payload a field is present
\* exactly when a record of its type code occurred in the stream.
NetemPresence ==
    /\ (scenario = "netem_marshal" /\ pc \in {"marshalled", "done"} /\ info # None) =>
          /\ Slice(data, 0, NetemQoptLen) = marshalStruct(info[1].Qopt, NetemQopt)
          /\ LET p == ParseFrom(Slice(data, NetemQoptLen, Len(data)), 0) IN
               /\ p.err = NilErr
               /\ TypesOf(p.attrs) = PresentTypes(info[1], 1)
               /\ \A k \in 1..Len(p.attrs) :
                      Len(p.attrs[k].Data) = NetemPayloadLen(p.attrs[k].Type)
    /\ (NetemDecoded /\ uerr = NilErr) =>
          LET seen == IF scenario = "netem_decode" THEN TypesOf(recs)
                      ELSE PresentTypes(info[1], 1)
          IN  \A k \in 1..Len(NetemFieldType) :
                 out[1][NetemFieldType[k][1]] # None
                    <=> \E i \in 1..Len(seen) : seen[i] = NetemFieldType[k][2]

NetemPresenceWitness ==
    /\ scenario = "netem_marshal"
    /\ pc = "done"
    /\ info # None
    /\ info[1].Ecn = Some(Zeros(4))
    /\ info[1].Corr = Some(ZeroStruct(NetemCorr))
    /\ info[1].Rate64 = None
    /\ out[1].Ecn = Some(Zeros(4))
    /\ out[1].Rate64 = None
    /\ Len(data) = NetemQoptLen + 16 + 8

\* C10: the count byte of a selector written by validateU32SelOptions equals
\* the number of 16-byte key records behind the 15-byte header, and a selector
\* extracted without error holds exactly nkeys keys in wire order.
SelCountAgrees ==
    /\ (scenario = "sel_marshal" /\ pc \in {"marshalled", "done"})
          => 16 * data[3] = Len(data) - 15
    /\ (scenario \in {"sel_marshal", "sel_extract"} /\ pc = "done" /\ uerr = NilErr) =>
          /\ Len(out[1].Keys) = data[3]
          /\ \A k \in 1..Len(out[1].Keys) :
                marshalStruct(out[1].Keys[k], U32Key) = Slice(data, 15 + 16 * (k - 1), 15 + 16 * k)

====
